---- MODULE Spec2Model ----
(***************************************************************************)
(* A model of generate_flashcards.py: the stave line detector              *)
(* (get_stave_info), the card renderer (create_flashcard, draw_note), the  *)
(* sheet tiler (arrange_on_a4) and the driver (load_backgrounds, main).    *)
(*                                                                         *)
(* Rasters are modelled by what the program reads from and writes to them: *)
(*   - an image handed to get_stave_info is its size and the pixels of the *)
(*     column width // 2, the only column the detector reads;              *)
(*   - a background is its size and the image Image.resize returns for it  *)
(*     (LANCZOS resampling belongs to the raster library and is a          *)
(*     deterministic function of the background);                          *)
(*   - a flashcard is the ordered list of drawing operations applied to    *)
(*     its canvas; a sheet is the ordered list of cards pasted on it.      *)
(***************************************************************************)
EXTENDS Integers, Sequences, FiniteSets, TLC

VARIABLES pc, files, TREBLE_BG, BASS_BG, TREBLE_NOTES, BASS_NOTES,
          flashcards, sheets, saved, warnings, i, call, result

vars == <<pc, files, TREBLE_BG, BASS_BG, TREBLE_NOTES, BASS_NOTES,
          flashcards, sheets, saved, warnings, i, call, result>>

(***************************************************************************)
(* Bounds of the model.                                                    *)
(***************************************************************************)
\* tallest image whose centre column is enumerated pixel by pixel (detector)
MaxHeight == 12
\* tallest resized background enumerated pixel by pixel (card renderer)
MaxCardHeight == 10
\* largest number of cards handed to the tiler
MaxCards == 90
\* how far beyond the catalog range -2..10 positions are drawn
PosMargin == 2

Min(a, b) == IF a <= b THEN a ELSE b

\* Python's int() on a float n/d with d > 0: truncation toward zero.
TruncDiv(n, d) == IF n >= 0 THEN n \div d ELSE -((-n) \div d)

(***************************************************************************)
(* Constants, generate_flashcards.py:11-28.                                *)
(***************************************************************************)
DPI == 300

\* int(mm * MM_TO_INCH * DPI) with MM_TO_INCH = 1 / 25.4.  For the five
\* lengths below the binary64 product lies strictly between two integers, so
\* truncation of the exact quotient gives the same pixel count.
MmToPx(mm) == (mm * DPI * 10) \div 254

CARD_WIDTH_MM == 69
CARD_HEIGHT_MM == 27
CARD_WIDTH == MmToPx(CARD_WIDTH_MM)
CARD_HEIGHT == MmToPx(CARD_HEIGHT_MM)
A4_WIDTH == MmToPx(297)
A4_HEIGHT == MmToPx(210)
MARGIN_MM == 10
MARGIN == MmToPx(MARGIN_MM)

(***************************************************************************)
(* Pixels and images.                                                      *)
(***************************************************************************)
None == [loaded |-> FALSE]

BLACK == <<0, 0, 0>>
WHITE == <<255, 255, 255>>
\* the two pixels on either side of the darkness threshold
DARK_GREY == <<127, 128, 128>>
MID_GREY == <<128, 128, 128>>

Image(w, h, centre) == [width |-> w, height |-> h, centre |-> centre]

\* every column of height h over the two threshold pixels
AllColumns(h) == [1..h -> {DARK_GREY, MID_GREY}]

\* a drawn stave: five black bands of the given thickness, the first one
\* starting at row top, one band every pitch rows, on white
StaveColumn(h, top, thick, pitch) ==
    [y \in 1..h |->
        IF /\ y - 1 >= top
           /\ (y - 1 - top) \div pitch < 5
           /\ (y - 1 - top) % pitch < thick
        THEN BLACK ELSE WHITE]

BlankColumn(h) == [y \in 1..h |-> WHITE]

(***************************************************************************)
(* get_stave_info, generate_flashcards.py:70-107.                          *)
(***************************************************************************)
is_dark(pixel) == pixel[1] + pixel[2] + pixel[3] < 384

\* the halving forgotten
line_centre_sum(line_start, y) == line_start + y

\* the line centre stored when a dark run that began at line_start ends at
\* the first non-dark row y
line_centre(line_start, y) == (line_start + y) \div 2

\* one iteration of the for loop, at the 0-based row y
scan_row(column, loop, y) ==
    LET dark == is_dark(column[y + 1]) IN
    IF dark /\ ~loop.in_line
    THEN [in_line |-> TRUE, line_start |-> y, lines |-> loop.lines]
    ELSE IF ~dark /\ loop.in_line
    THEN [in_line |-> FALSE, line_start |-> loop.line_start,
          lines |-> Append(loop.lines, line_centre(loop.line_start, y))]
    ELSE loop

\* the iterations for the rows from..to - 1 in increasing order.  The range
\* is halved rather than peeled row by row, and the CASE guard makes TLC
\* finish the first half before it starts the second, which keeps the
\* evaluation shallow for a column of CARD_HEIGHT rows.
RECURSIVE scan_rows(_, _, _, _)
scan_rows(column, loop, from, to) ==
    IF from >= to THEN loop
    ELSE IF to = from + 1 THEN scan_row(column, loop, from)
    ELSE LET mid == (from + to) \div 2
             first == scan_rows(column, loop, from, mid)
         IN  CASE first.in_line \in BOOLEAN ->
                  scan_rows(column, first, mid, to)

\* the for loop over range(height)
scan(column) ==
    scan_rows(column, [in_line |-> FALSE, line_start |-> 0, lines |-> << >>],
              0, Len(column)).lines

\* spreads the five estimates over the exact sixths of the height
fallback_lines_sixths(height) == [k \in 1..5 |-> (k * height) \div 6]

fallback_lines(height) ==
    LET line_spacing == height \div 6
    IN  [k \in 1..5 |-> line_spacing * k]

get_stave_info(bg_image) ==
    LET lines == scan(bg_image.centre)
    IN  IF Len(lines) >= 5 THEN SubSeq(lines, 1, 5)
        ELSE fallback_lines(bg_image.height)

(***************************************************************************)
(* draw_note, generate_flashcards.py:110-144.  The note x coordinate is    *)
(* CARD_WIDTH / 3.5, not a whole pixel: horizontal coordinates are kept in *)
(* sevenths of a pixel (x7 = 7 * x).  The result is the list of shapes     *)
(* drawn, in drawing order.                                                *)
(***************************************************************************)
note_width == 38
note_height == 28

draw_note(x7, y, ledger_line) ==
    LET ledger == IF ledger_line
                  THEN << [op |-> "ledger", x0_7 |-> x7 - 7 * 25, y0 |-> y,
                           x1_7 |-> x7 + 7 * 25, y1 |-> y, width |-> 2] >>
                  ELSE << >>
        head == [op |-> "head",
                 x0_7 |-> x7 - 7 * (note_width \div 2), y0 |-> y - note_height \div 2,
                 x1_7 |-> x7 + 7 * (note_width \div 2), y1 |-> y + note_height \div 2]
        stem == IF y > CARD_HEIGHT \div 2
                THEN [op |-> "stem", x_7 |-> x7 + 7 * (note_width \div 2),
                      y0 |-> y, y1 |-> y - 80, width |-> 6]
                ELSE [op |-> "stem", x_7 |-> x7 - 7 * (note_width \div 2),
                      y0 |-> y, y1 |-> y + 80, width |-> 6]
    IN  ledger \o << head, stem >>

(***************************************************************************)
(* create_flashcard, generate_flashcards.py:147-255.                       *)
(***************************************************************************)
Background(w, h, column) ==
    [loaded |-> TRUE, width |-> w, height |-> h, column |-> column]

left_half_width == CARD_WIDTH \div 2

\* int(left_half_width * (height / width)), capped at CARD_HEIGHT.  For every
\* background size of this model the binary64 result equals the truncated
\* exact quotient.
new_height(bg) ==
    LET fit == (left_half_width * bg.height) \div bg.width
    IN  IF fit > CARD_HEIGHT THEN CARD_HEIGHT ELSE fit

\* int(new_height / aspect_ratio) when the height was capped
new_width(bg) ==
    LET fit == (left_half_width * bg.height) \div bg.width
    IN  IF fit > CARD_HEIGHT THEN (CARD_HEIGHT * bg.width) \div bg.height
        ELSE left_half_width

paste_x(bg) == (left_half_width - new_width(bg)) \div 2
paste_y(bg) == (CARD_HEIGHT - new_height(bg)) \div 2

\* the image bg_image.resize((new_width, new_height), LANCZOS) returns
bg_resized(bg) == Image(new_width(bg), new_height(bg), bg.column)

\* the offset added instead of subtracted: positions grow downward
note_y_downward(stave_lines, paste_offset, position) ==
    LET bottom_line_y == stave_lines[5] + paste_offset
        line_spacing4 == stave_lines[5] - stave_lines[1]
    IN  TruncDiv(8 * bottom_line_y + position * line_spacing4, 8)

\* int(note_y) with bottom_line_y = stave_lines[4] + paste_y,
\* line_spacing = (stave_lines[4] - stave_lines[0]) / 4 and
\* note_y = bottom_line_y - position * (line_spacing / 2): an exact multiple
\* of 1/8 in binary64, truncated toward zero.  Python indexes from 0.
note_y(stave_lines, paste_offset, position) ==
    LET bottom_line_y == stave_lines[5] + paste_offset
        line_spacing4 == stave_lines[5] - stave_lines[1]
    IN  TruncDiv(8 * bottom_line_y - position * line_spacing4, 8)

\* 7 * (CARD_WIDTH / 3.5)
note_x7 == 2 * CARD_WIDTH

\* the bound above the stave off by one
needs_ledger_from_nine(position) == position < -1 \/ position >= 9

needs_ledger(position) == position < -1 \/ position > 9

\* the dashed fold line: the while loop over y
dash_length == 10
gap_length == 5

RECURSIVE fold_dashes(_)
fold_dashes(y) ==
    IF y < CARD_HEIGHT
    THEN << [op |-> "fold_dash", x |-> CARD_WIDTH \div 2, y0 |-> y,
             y1 |-> Min(y + dash_length, CARD_HEIGHT)] >>
         \o fold_dashes(y + dash_length + gap_length)
    ELSE << >>

\* the dashes of the whole fold line, from y = 0
fold_line == fold_dashes(0)

\* the left panel: background paste and note, drawn only with a background
left_panel(bg_image, position) ==
    IF bg_image.loaded
    THEN LET stave_lines == get_stave_info(bg_resized(bg_image))
         IN  << [op |-> "paste_bg",
                 at |-> << paste_x(bg_image), paste_y(bg_image) >>,
                 size |-> << new_width(bg_image), new_height(bg_image) >>] >>
             \o (IF Len(stave_lines) >= 5
                 THEN draw_note(note_x7,
                                note_y(stave_lines, paste_y(bg_image), position),
                                needs_ledger(position))
                 ELSE << >>)
    ELSE << >>

\* A card is its canvas size, the drawing operations applied to it in order
\* and, to tell cards apart, the arguments it was rendered from.
create_flashcard(note_name, clef_type, position) ==
    LET bg_image == IF clef_type = "treble" THEN TREBLE_BG ELSE BASS_BG
    IN  [size |-> << CARD_WIDTH, CARD_HEIGHT >>,
         args |-> << note_name, clef_type, position >>,
         ops  |-> left_panel(bg_image, position)
                  \o fold_line
                  \o << [op |-> "text", text |-> note_name, angle |-> 180],
                        [op |-> "border",
                         box |-> << 0, 0, CARD_WIDTH - 1, CARD_HEIGHT - 1 >>,
                         width |-> 2] >>]

(***************************************************************************)
(* Note definitions, generate_flashcards.py:262-298.                       *)
(***************************************************************************)
TREBLE_NOTES_0 ==
    << <<"C", -2>>, <<"D", -1>>, <<"E", 0>>, <<"F", 1>>, <<"G", 2>>,
       <<"A", 3>>, <<"B", 4>>, <<"C", 5>>, <<"D", 6>>, <<"E", 7>>,
       <<"F", 8>>, <<"G", 9>>, <<"A", 10>> >>

BASS_NOTES_0 ==
    << <<"E", -2>>, <<"F", -1>>, <<"G", 0>>, <<"A", 1>>, <<"B", 2>>,
       <<"C", 3>>, <<"D", 4>>, <<"E", 5>>, <<"F", 6>>, <<"G", 7>>,
       <<"A", 8>>, <<"B", 9>>, <<"C", 10>> >>

(***************************************************************************)
(* arrange_on_a4, generate_flashcards.py:301-333.                          *)
(***************************************************************************)
printable_width == A4_WIDTH - (2 * MARGIN)
printable_height == A4_HEIGHT - (2 * MARGIN)
\* rounds the number of columns up instead of down
cards_per_row_rounded_up == (printable_width + CARD_WIDTH - 1) \div CARD_WIDTH

cards_per_row == printable_width \div CARD_WIDTH
cards_per_col == printable_height \div CARD_HEIGHT
cards_per_sheet == cards_per_row * cards_per_col

\* row and column computed from the number of rows instead of columns
paste_position_by_col(idx) ==
    LET row == idx \div cards_per_col
        col == idx % cards_per_col
    IN  << MARGIN + (col * CARD_WIDTH), MARGIN + (row * CARD_HEIGHT) >>

\* where the card at 0-based index idx of a sheet's slice is pasted
paste_position(idx) ==
    LET row == idx \div cards_per_row
        col == idx % cards_per_row
    IN  << MARGIN + (col * CARD_WIDTH), MARGIN + (row * CARD_HEIGHT) >>

\* a slice one card short: flashcards[sheet_num:sheet_num + cards_per_sheet - 1]
cards_on_sheet_short(cards, sheet_num) ==
    SubSeq(cards, sheet_num + 1,
           Min(sheet_num + cards_per_sheet - 1, Len(cards)))

\* flashcards[sheet_num:sheet_num + cards_per_sheet]
cards_on_sheet(cards, sheet_num) ==
    SubSeq(cards, sheet_num + 1, Min(sheet_num + cards_per_sheet, Len(cards)))

\* one sheet: a white A4 canvas and the cards pasted on it, in paste order
make_sheet(cards, sheet_num) ==
    LET slice == cards_on_sheet(cards, sheet_num)
    IN  [size |-> << A4_WIDTH, A4_HEIGHT >>,
         pastes |-> [idx1 \in 1..Len(slice) |->
                        [card |-> slice[idx1], at |-> paste_position(idx1 - 1)]]]

\* the loop over range(0, len(flashcards), cards_per_sheet)
RECURSIVE arrange_from(_, _, _)
arrange_from(cards, sheet_num, done) ==
    IF sheet_num >= Len(cards) THEN done
    ELSE arrange_from(cards, sheet_num + cards_per_sheet,
                      Append(done, make_sheet(cards, sheet_num)))

arrange_on_a4(cards) == arrange_from(cards, 0, << >>)

(***************************************************************************)
(* load_backgrounds, generate_flashcards.py:34-67.  files maps each path   *)
(* to the RGB image load_and_convert returns for it (decoding and alpha    *)
(* flattening belong to the raster library), or to None when the file does *)
(* not exist.                                                              *)
(***************************************************************************)
treble_path == "treble.png"
bass_path == "bass-clef.png"

exists(path) == files[path].loaded
load_and_convert(path) == files[path]

\* gives up at the first missing file: bass-clef.png is loaded only when
\* treble.png exists
LoadBackgrounds_stop_at_missing ==
    /\ pc = "load"
    /\ TREBLE_BG' = IF exists(treble_path) THEN load_and_convert(treble_path)
                    ELSE TREBLE_BG
    /\ BASS_BG' = IF exists(treble_path) /\ exists(bass_path)
                  THEN load_and_convert(bass_path)
                  ELSE BASS_BG
    /\ warnings' = warnings
          \o (IF exists(treble_path) THEN << >>
              ELSE << <<"Warning: ", treble_path, " not found">> >>)
          \o (IF exists(bass_path) THEN << >>
              ELSE << <<"Warning: ", bass_path, " not found">> >>)
    /\ pc' = "treble"
    /\ i' = 1
    /\ UNCHANGED <<files, TREBLE_NOTES, BASS_NOTES, flashcards, sheets, saved,
                   call, result>>

LoadBackgrounds ==
    /\ pc = "load"
    /\ TREBLE_BG' = IF exists(treble_path) THEN load_and_convert(treble_path)
                    ELSE TREBLE_BG
    /\ BASS_BG' = IF exists(bass_path) THEN load_and_convert(bass_path)
                  ELSE BASS_BG
    /\ warnings' = warnings
          \o (IF exists(treble_path) THEN << >>
              ELSE << <<"Warning: ", treble_path, " not found">> >>)
          \o (IF exists(bass_path) THEN << >>
              ELSE << <<"Warning: ", bass_path, " not found">> >>)
    /\ pc' = "treble"
    /\ i' = 1
    /\ UNCHANGED <<files, TREBLE_NOTES, BASS_NOTES, flashcards, sheets, saved,
                   call, result>>

(***************************************************************************)
(* main, generate_flashcards.py:336-371: one action per loop iteration.    *)
(***************************************************************************)
CreateTrebleCard ==
    /\ pc = "treble"
    /\ i <= Len(TREBLE_NOTES)
    /\ flashcards' = Append(flashcards,
           create_flashcard(TREBLE_NOTES[i][1], "treble", TREBLE_NOTES[i][2]))
    /\ IF i = Len(TREBLE_NOTES)
       THEN pc' = "bass" /\ i' = 1
       ELSE pc' = pc /\ i' = i + 1
    /\ UNCHANGED <<files, TREBLE_BG, BASS_BG, TREBLE_NOTES, BASS_NOTES, sheets,
                   saved, warnings, call, result>>

\* renders the bass entries with the treble clef
CreateBassCard_treble ==
    /\ pc = "bass"
    /\ i <= Len(BASS_NOTES)
    /\ flashcards' = Append(flashcards,
           create_flashcard(BASS_NOTES[i][1], "treble", BASS_NOTES[i][2]))
    /\ IF i = Len(BASS_NOTES)
       THEN pc' = "arrange" /\ i' = 1
       ELSE pc' = pc /\ i' = i + 1
    /\ UNCHANGED <<files, TREBLE_BG, BASS_BG, TREBLE_NOTES, BASS_NOTES, sheets,
                   saved, warnings, call, result>>

CreateBassCard ==
    /\ pc = "bass"
    /\ i <= Len(BASS_NOTES)
    /\ flashcards' = Append(flashcards,
           create_flashcard(BASS_NOTES[i][1], "bass", BASS_NOTES[i][2]))
    /\ IF i = Len(BASS_NOTES)
       THEN pc' = "arrange" /\ i' = 1
       ELSE pc' = pc /\ i' = i + 1
    /\ UNCHANGED <<files, TREBLE_BG, BASS_BG, TREBLE_NOTES, BASS_NOTES, sheets,
                   saved, warnings, call, result>>

ArrangeOnA4 ==
    /\ pc = "arrange"
    /\ sheets' = arrange_on_a4(flashcards)
    /\ pc' = IF sheets' = << >> THEN "done" ELSE "save"
    /\ i' = 1
    /\ UNCHANGED <<files, TREBLE_BG, BASS_BG, TREBLE_NOTES, BASS_NOTES,
                   flashcards, saved, warnings, call, result>>

\* sheet.save(f"flashcards_sheet_{idx}.png", dpi=(DPI, DPI)), idx from 1
SaveSheet ==
    /\ pc = "save"
    /\ i <= Len(sheets)
    /\ saved' = Append(saved, [filename |-> <<"flashcards_sheet_", i, ".png">>,
                               sheet |-> sheets[i], dpi |-> <<DPI, DPI>>])
    /\ IF i = Len(sheets)
       THEN pc' = "done" /\ i' = i
       ELSE pc' = pc /\ i' = i + 1
    /\ UNCHANGED <<files, TREBLE_BG, BASS_BG, TREBLE_NOTES, BASS_NOTES,
                   flashcards, sheets, warnings, call, result>>

(***************************************************************************)
(* Inputs.                                                                 *)
(***************************************************************************)
\* Backgrounds of realistic size.  Each column has the height new_height
\* gives for the background's size.
TallStave == Background(100, 100, StaveColumn(CARD_HEIGHT, 0, 1, 79))
ThickStave == Background(407, 200, StaveColumn(200, 40, 3, 20))
CutStave == Background(407, 200, StaveColumn(200, 119, 2, 20))
BlankStrip == Background(407, 12, BlankColumn(12))
BlankSliver == Background(407, 3, BlankColumn(3))

MainBackgrounds == {TallStave, ThickStave, CutStave, BlankStrip, BlankSliver}

\* every background 407 wide and at most MaxCardHeight tall, so that the
\* resize keeps its height
SmallBackgrounds ==
    UNION { { Background(407, h, column) : column \in AllColumns(h) }
            : h \in 1..MaxCardHeight }

CardBackgrounds == MainBackgrounds \cup SmallBackgrounds

\* images handed to the detector
StaveImages ==
    UNION { { Image(407, h, column) : column \in AllColumns(h) }
            : h \in 1..MaxHeight }
    \cup { bg_resized(bg) : bg \in MainBackgrounds }

Positions == (-2 - PosMargin)..(10 + PosMargin)

\* the name the clef's catalog gives a position, "X" beyond the catalog range
NameAt(clef, position) ==
    IF position \in -2..10
    THEN (IF clef = "treble" THEN TREBLE_NOTES_0 ELSE BASS_NOTES_0)[position + 3][1]
    ELSE "X"

BlankCard(k) == [size |-> << CARD_WIDTH, CARD_HEIGHT >>, args |-> << k >>,
                 ops |-> << >>]

Idle ==
    /\ TREBLE_NOTES = TREBLE_NOTES_0
    /\ BASS_NOTES = BASS_NOTES_0
    /\ sheets = << >>
    /\ saved = << >>
    /\ warnings = << >>
    /\ result = << >>

(***************************************************************************)
(* Spec: a run of main.                                                    *)
(***************************************************************************)
Init ==
    /\ Idle
    /\ pc = "load"
    /\ files \in [{treble_path, bass_path} -> MainBackgrounds \cup {None}]
    /\ TREBLE_BG = None
    /\ BASS_BG = None
    /\ flashcards = << >>
    /\ i = 0
    /\ call = << >>

Next ==
    \/ LoadBackgrounds
    \/ CreateTrebleCard
    \/ CreateBassCard
    \/ ArrangeOnA4
    \/ SaveSheet

Spec == Init /\ [][Next]_vars

(***************************************************************************)
(* SpecTiler: arrange_on_a4 and the saving loop on any number of cards.    *)
(***************************************************************************)
InitTiler ==
    /\ Idle
    /\ pc = "arrange"
    /\ files = [path \in {treble_path, bass_path} |-> None]
    /\ TREBLE_BG = None
    /\ BASS_BG = None
    /\ \E n \in 0..MaxCards : flashcards = [k \in 1..n |-> BlankCard(k)]
    /\ i = 0
    /\ call = << >>

NextTiler ==
    \/ ArrangeOnA4
    \/ SaveSheet

SpecTiler == InitTiler /\ [][NextTiler]_vars

(***************************************************************************)
(* SpecStave: get_stave_info applied to any image.                         *)
(***************************************************************************)
CallGetStaveInfo ==
    /\ pc = "call_get_stave_info"
    /\ result' = get_stave_info(call.bg_image)
    /\ pc' = "return"
    /\ UNCHANGED <<files, TREBLE_BG, BASS_BG, TREBLE_NOTES, BASS_NOTES,
                   flashcards, sheets, saved, warnings, i, call>>

InitStave ==
    /\ Idle
    /\ pc = "call_get_stave_info"
    /\ files = [path \in {treble_path, bass_path} |-> None]
    /\ TREBLE_BG = None
    /\ BASS_BG = None
    /\ flashcards = << >>
    /\ i = 0
    /\ \E image \in StaveImages : call = [bg_image |-> image]

NextStave == CallGetStaveInfo

SpecStave == InitStave /\ [][NextStave]_vars

(***************************************************************************)
(* SpecCard: create_flashcard applied to any note, with any backgrounds    *)
(* loaded.                                                                 *)
(***************************************************************************)
CallCreateFlashcard ==
    /\ pc = "call_create_flashcard"
    /\ result' = create_flashcard(call.note_name, call.clef_type, call.position)
    /\ pc' = "return"
    /\ UNCHANGED <<files, TREBLE_BG, BASS_BG, TREBLE_NOTES, BASS_NOTES,
                   flashcards, sheets, saved, warnings, i, call>>

InitCard ==
    /\ Idle
    /\ pc = "call_create_flashcard"
    /\ files = [path \in {treble_path, bass_path} |-> None]
    /\ \E bg \in CardBackgrounds \cup {None}, clef \in {"treble", "bass"},
          position \in Positions :
          \* the other clef's background is absent when this one is loaded,
          \* and loaded when this one is absent
          LET other == IF bg.loaded THEN None ELSE BlankStrip IN
          /\ TREBLE_BG = IF clef = "treble" THEN bg ELSE other
          /\ BASS_BG = IF clef = "bass" THEN bg ELSE other
          /\ call = [note_name |-> NameAt(clef, position), clef_type |-> clef,
                     position |-> position]
    /\ flashcards = << >>
    /\ i = 0

NextCard == CallCreateFlashcard

SpecCard == InitCard /\ [][NextCard]_vars

(***************************************************************************)
(* Properties of the sheet tiler (SpecTiler).                              *)
(***************************************************************************)
Arranged == pc \in {"save", "done"}

AllPastes == { <<s, k>> \in (1..Len(sheets)) \X (1..cards_per_sheet + 1) :
                  k <= Len(sheets[s].pastes) }

\* C1: every card pasted on any sheet, for any number of input cards, has its
\* whole bounding box [x, x + CARD_WIDTH) x [y, y + CARD_HEIGHT) inside the
\* printable area [MARGIN, A4_WIDTH - MARGIN) x [MARGIN, A4_HEIGHT - MARGIN).
C1_CardsInsidePrintableArea ==
    \A sk \in AllPastes :
        LET paste == sheets[sk[1]].pastes[sk[2]]
            x == paste.at[1]
            y == paste.at[2]
        IN  /\ paste.card.size = << CARD_WIDTH, CARD_HEIGHT >>
            /\ MARGIN <= x
            /\ x + CARD_WIDTH <= A4_WIDTH - MARGIN
            /\ MARGIN <= y
            /\ y + CARD_HEIGHT <= A4_HEIGHT - MARGIN

\* a full sheet followed by another one: the last row and the last column of
\* the grid are occupied
C1_Witness ==
    /\ pc = "done"
    /\ Len(sheets) >= 2
    /\ Len(sheets[1].pastes) = 28
    /\ sheets[1].pastes[28].at = << MARGIN + 3 * CARD_WIDTH, MARGIN + 6 * CARD_HEIGHT >>

\* C2: n cards give exactly ceil(n / C) sheets with C = 4 x 7 = 28 (none for
\* n = 0); every sheet but the last holds exactly C cards, the last holds
\* n - C * (ceil(n / C) - 1), every pasted card is an input card (no blank
\* padding); 26 cards give exactly one sheet holding 26 cards.
C2_SheetCount ==
    Arranged =>
        LET n == Len(flashcards)
            C == cards_per_sheet
            expected == (n + C - 1) \div C
        IN  /\ cards_per_row = 4 /\ cards_per_col = 7 /\ C = 28
            /\ Len(sheets) = expected
            /\ \A s \in 1..Len(sheets) :
                  /\ Len(sheets[s].pastes) =
                        IF s < expected THEN C ELSE n - C * (expected - 1)
                  /\ \A k \in 1..Len(sheets[s].pastes) :
                        \E j \in 1..n : sheets[s].pastes[k].card = flashcards[j]
            /\ n = 26 => Len(sheets) = 1 /\ Len(sheets[1].pastes) = 26

\* several full sheets and a partly filled last one
C2_Witness ==
    /\ pc = "done"
    /\ Len(sheets) >= 3
    /\ Len(sheets[Len(sheets)].pastes) \in 1..27
    /\ Len(saved) = Len(sheets)

\* C3: the card at input index i (from 0) is pasted on sheet floor(i / C), at
\* row floor((i mod C) / cards_per_row) and column (i mod C) mod
\* cards_per_row, at pixel (MARGIN + col * CARD_WIDTH, MARGIN + row *
\* CARD_HEIGHT); every input card is pasted exactly once and no two cards of
\* a sheet overlap.
C3_RowMajorInOrder ==
    Arranged =>
        LET n == Len(flashcards)
            C == cards_per_sheet
        IN  /\ \A i0 \in 0..n - 1 :
                  LET s == i0 \div C
                      row == (i0 % C) \div cards_per_row
                      col == (i0 % C) % cards_per_row
                  IN  /\ s + 1 <= Len(sheets)
                      /\ (i0 % C) + 1 <= Len(sheets[s + 1].pastes)
                      /\ sheets[s + 1].pastes[(i0 % C) + 1] =
                            [card |-> flashcards[i0 + 1],
                             at |-> << MARGIN + col * CARD_WIDTH,
                                       MARGIN + row * CARD_HEIGHT >>]
                      /\ Cardinality({ sk \in AllPastes :
                            sheets[sk[1]].pastes[sk[2]].card = flashcards[i0 + 1] }) = 1
            /\ Cardinality(AllPastes) = n
            /\ \A sk1 \in AllPastes, sk2 \in AllPastes :
                  (sk1[1] = sk2[1] /\ sk1[2] # sk2[2]) =>
                      LET a == sheets[sk1[1]].pastes[sk1[2]].at
                          b == sheets[sk2[1]].pastes[sk2[2]].at
                      IN  \/ a[1] + CARD_WIDTH <= b[1]
                          \/ b[1] + CARD_WIDTH <= a[1]
                          \/ a[2] + CARD_HEIGHT <= b[2]
                          \/ b[2] + CARD_HEIGHT <= a[2]

\* a second sheet with more than one row of cards on it
C3_Witness ==
    /\ Arranged
    /\ Len(sheets) >= 2
    /\ Len(sheets[2].pastes) > cards_per_row
    /\ sheets[2].pastes[cards_per_row + 1].card = flashcards[cards_per_sheet + cards_per_row + 1]

(***************************************************************************)
(* Properties of a run of main (Spec).                                     *)
(***************************************************************************)
\* the positions in a card's drawing list of the operations of one kind
OpsOf(card, kind) == { k \in 1..Len(card.ops) : card.ops[k].op = kind }

\* the background the program holds for a clef
BackgroundOf(clef) == IF clef = "treble" THEN TREBLE_BG ELSE BASS_BG

\* the arguments of the 26 catalog cards, in catalog order
CatalogArgs ==
    [k \in 1..26 |->
        IF k <= 13
        THEN << TREBLE_NOTES_0[k][1], "treble", TREBLE_NOTES_0[k][2] >>
        ELSE << BASS_NOTES_0[k - 13][1], "bass", BASS_NOTES_0[k - 13][2] >>]

\* C4: a run of main produces exactly 26 flashcards, one per catalog entry in
\* catalog order: the 13 TREBLE_NOTES entries rendered with clef "treble",
\* then the 13 BASS_NOTES entries rendered with clef "bass"; the catalog
\* lists are not mutated by the run.
C4_CatalogOrder ==
    /\ TREBLE_NOTES = TREBLE_NOTES_0 /\ Len(TREBLE_NOTES) = 13
    /\ BASS_NOTES = BASS_NOTES_0 /\ Len(BASS_NOTES) = 13
    /\ Len(flashcards) <= 26
    /\ \A k \in 1..Len(flashcards) :
          /\ flashcards[k].args = CatalogArgs[k]
          /\ flashcards[k].size = << CARD_WIDTH, CARD_HEIGHT >>
          /\ (OpsOf(flashcards[k], "paste_bg") # {})
                <=> BackgroundOf(CatalogArgs[k][2]).loaded
          /\ \A o \in OpsOf(flashcards[k], "text") :
                flashcards[k].ops[o].text = CatalogArgs[k][1]
    /\ pc \in {"arrange", "save", "done"} => Len(flashcards) = 26

\* the run is over, with one clef's background present and the other absent
C4_Witness ==
    /\ pc = "done"
    /\ Len(flashcards) = 26
    /\ TREBLE_BG.loaded
    /\ ~BASS_BG.loaded

Missing(path) == ~files[path].loaded

\* C8: when one or both background files are missing, load_backgrounds emits
\* one warning per missing file and leaves only that clef's background absent
\* (the other is loaded); the run never stops short of its end (in every
\* state before the end the guard of the next step holds) and ends with all
\* 26 cards; a card whose clef background is absent has no stave, note head,
\* stem or ledger line, and still has the dashed fold line, the rotated
\* answer text and the border.
C8_MissingBackgrounds ==
    /\ pc # "load" =>
          /\ TREBLE_BG = (IF Missing(treble_path) THEN None ELSE files[treble_path])
          /\ BASS_BG = (IF Missing(bass_path) THEN None ELSE files[bass_path])
          /\ warnings =
                (IF Missing(treble_path)
                 THEN << <<"Warning: ", "treble.png", " not found">> >> ELSE << >>)
                \o (IF Missing(bass_path)
                    THEN << <<"Warning: ", "bass-clef.png", " not found">> >> ELSE << >>)
    /\ pc \in {"load", "treble", "bass", "arrange", "save", "done"}
    /\ pc = "treble" => i \in 1..Len(TREBLE_NOTES)
    /\ pc = "bass" => i \in 1..Len(BASS_NOTES)
    /\ pc = "save" => i \in 1..Len(sheets)
    /\ pc = "done" => Len(flashcards) = 26 /\ Len(saved) = 1
    /\ \A k \in 1..Len(flashcards) :
          LET card == flashcards[k] IN
          ~BackgroundOf(card.args[2]).loaded =>
              /\ \A kind \in {"paste_bg", "head", "stem", "ledger"} :
                    OpsOf(card, kind) = {}
              /\ Cardinality(OpsOf(card, "fold_dash")) = 22
              /\ \A o \in OpsOf(card, "fold_dash") :
                    /\ card.ops[o].x = CARD_WIDTH \div 2
                    /\ card.ops[o].y0 < card.ops[o].y1
                    /\ card.ops[o].y1 <= CARD_HEIGHT
              /\ \E o \in OpsOf(card, "text") :
                    /\ OpsOf(card, "text") = {o}
                    /\ card.ops[o].text = card.args[1]
                    /\ card.ops[o].angle = 180
              /\ Cardinality(OpsOf(card, "border")) = 1

\* a finished run in which treble.png was missing and bass-clef.png was not
C8_Witness ==
    /\ pc = "done"
    /\ Missing(treble_path)
    /\ ~Missing(bass_path)
    /\ Len(warnings) = 1
    /\ OpsOf(flashcards[1], "head") = {}
    /\ OpsOf(flashcards[14], "head") # {}

(***************************************************************************)
(* Properties of the stave line detector (SpecStave).                      *)
(***************************************************************************)
Returned == pc = "return"

\* the dark rows (0-based) of the centre column of the image handed over,
\* and the first and last row of each solid dark band
DarkRows == { y \in 0..call.bg_image.height - 1 :
                 is_dark(call.bg_image.centre[y + 1]) }
BandFirstRows == { y \in DarkRows : y - 1 \notin DarkRows }
BandLastRows == { y \in DarkRows : y + 1 \notin DarkRows }

\* the k-th smallest row of a set of rows
Kth(rows, k) == CHOOSE y \in rows : Cardinality({ z \in rows : z < y }) = k - 1

\* C5: given a centre column with exactly 5 solid dark bands separated by
\* non-dark rows, for every height, every band thickness and every band
\* placement (a band touching the first or the last row included),
\* get_stave_info returns exactly the 5 band midpoints
\* (first dark row + last dark row) / 2, top to bottom.
C5_BandMidpoints ==
    (Returned /\ Cardinality(BandFirstRows) = 5) =>
        /\ Len(result) = 5
        /\ \A k \in 1..5 :
              2 * result[k] = Kth(BandFirstRows, k) + Kth(BandLastRows, k)

\* C6 as stated: with no dark pixel in the centre column the 5 positions are
\* k * height / 6 for k = 1..5, for every height (read generously: each
\* position is k * height / 6 rounded down or up to a whole row).
C6_FallbackExactSixths ==
    (Returned /\ DarkRows = {}) =>
        /\ Len(result) = 5
        /\ \A k \in 1..5 :
              /\ 6 * result[k] > k * call.bg_image.height - 6
              /\ 6 * result[k] < k * call.bg_image.height + 6

\* C6 amended: with no dark pixel in the centre column get_stave_info
\* returns exactly the 5 positions k * floor(height / 6) for k = 1..5, for
\* every height.
C6_FallbackFlooredSpacing ==
    (Returned /\ DarkRows = {}) =>
        /\ Len(result) = 5
        /\ \A k \in 1..5 : result[k] = k * (call.bg_image.height \div 6)

\* a blank image whose height is not a multiple of 6 and whose fallback
\* positions differ from k * height / 6
C6_Witness ==
    /\ Returned
    /\ DarkRows = {}
    /\ call.bg_image.height = 11
    /\ result = << 1, 2, 3, 4, 5 >>

StrictlyIncreasing(rows) == \A k \in 1..Len(rows) - 1 : rows[k] < rows[k + 1]

\* C7 as stated: for every image (any height >= 1, any centre column),
\* get_stave_info returns exactly 5 rows, strictly increasing and inside
\* 0..height - 1.
C7_FiveIncreasingRows ==
    Returned =>
        /\ Len(result) = 5
        /\ StrictlyIncreasing(result)
        /\ \A k \in 1..5 : result[k] \in 0..call.bg_image.height - 1

\* C7 amended: for every image, get_stave_info returns exactly 5 values; for
\* every height >= 6 they are strictly increasing rows inside 0..height - 1,
\* and for every height < 6 all five are 0.
C7_FiveRowsFromHeightSix ==
    Returned =>
        /\ Len(result) = 5
        /\ call.bg_image.height >= 6 =>
              /\ StrictlyIncreasing(result)
              /\ \A k \in 1..5 : result[k] \in 0..call.bg_image.height - 1
        /\ call.bg_image.height < 6 => \A k \in 1..5 : result[k] = 0

\* the detection path: at least five closed dark runs, the lines returned
\* are not the fallback estimate
C7_Witness ==
    /\ Returned
    /\ Cardinality({ y \in BandLastRows : y + 1 < call.bg_image.height }) >= 5
    /\ result # fallback_lines(call.bg_image.height)
    /\ result[1] = Kth(BandFirstRows, 1)

(***************************************************************************)
(* Properties of the card renderer (SpecCard).                             *)
(***************************************************************************)
\* the background create_flashcard was called with
CallBackground == IF call.clef_type = "treble" THEN TREBLE_BG ELSE BASS_BG

\* the y coordinate of the centre of the note head drawn on a card
NoteHeadY(card) ==
    LET head == card.ops[CHOOSE o \in OpsOf(card, "head") : TRUE]
    IN  (head.y0 + head.y1) \div 2

IsCatalogEntry(args) == \E k \in 1..26 : CatalogArgs[k] = args

\* C9: with a background present, a ledger line is drawn if and only if
\* position < -1 or position > 9 (none for any position in [-1, 9]); over the
\* two catalogs exactly the entries at positions -2 and 10, two per clef, get
\* one; the ledger line is horizontal and passes through the y coordinate of
\* the note head.
C9_LedgerLine ==
    (Returned /\ CallBackground.loaded) =>
        LET ledgers == OpsOf(result, "ledger") IN
        /\ Cardinality(OpsOf(result, "head")) = 1
        /\ (ledgers # {}) <=> (call.position < -1 \/ call.position > 9)
        /\ call.position \in -1..9 => ledgers = {}
        /\ IsCatalogEntry(result.args) =>
              ((ledgers # {}) <=> call.position \in {-2, 10})
        /\ \A clef \in {"treble", "bass"} :
              Cardinality({ k \in 1..26 : /\ CatalogArgs[k][2] = clef
                                          /\ needs_ledger(CatalogArgs[k][3]) }) = 2
        /\ \A o \in ledgers :
              /\ result.ops[o].y0 = result.ops[o].y1
              /\ result.ops[o].y0 = NoteHeadY(result)
              /\ result.ops[o].x0_7 < result.ops[o].x1_7
              /\ \A h \in OpsOf(result, "head") :
                    /\ result.ops[h].y0 < result.ops[o].y0
                    /\ result.ops[o].y0 < result.ops[h].y1

\* a catalog card above the stave, drawn with its ledger line
C9_Witness ==
    /\ Returned
    /\ CallBackground.loaded
    /\ result.args = << "A", "treble", 10 >>
    /\ OpsOf(result, "ledger") # {}

\* the stave lines detected on the resized background of the call, and the
\* vertical offset at which that background was pasted on the card
CallStaveLines == get_stave_info(bg_resized(CallBackground))
PasteOffset == result.ops[CHOOSE o \in OpsOf(result, "paste_bg") : TRUE].at[2]

EquallySpaced(lines) ==
    /\ lines[2] - lines[1] >= 1
    /\ \A k \in 2..4 : lines[k + 1] - lines[k] = lines[2] - lines[1]

\* the placement C10 states, for stave lines l (indexed from 1), paste offset
\* py, position p and note-head centre y
PlacedByConvention(l, py, p, y) ==
    LET d == l[2] - l[1] IN
    /\ p \in {0, 2, 4, 6, 8} => y = l[5 - p \div 2] + py
    /\ (p \in -1..9 /\ p % 2 = 1) => 2 * y - (2 * (l[5] + py) - p * d) \in -2..2
    /\ p \in -2..10 =>
          \A q \in -2..10 :
              /\ q > p => note_y(l, py, q) <= y
              /\ q < p => note_y(l, py, q) >= y

\* C10: for stave lines l0 < l1 < l2 < l3 < l4 with equal spacing d and paste
\* offset paste_y, the note-head centre is exactly l[4 - p/2] + paste_y for
\* every even position p in {0, 2, 4, 6, 8}, lies within one pixel of the
\* midpoint between the two neighbouring lines (at spacing d, also beyond the
\* stave) for every odd position, and never increases as the position
\* increases over the catalog range -2..10.
C10_NotePlacement ==
    (Returned /\ CallBackground.loaded /\ EquallySpaced(CallStaveLines)) =>
        PlacedByConvention(CallStaveLines, PasteOffset, call.position,
                           NoteHeadY(result))

\* detected lines an odd number of rows apart, a note in a space whose
\* centre falls between two rows, above the top of the card
C10_Witness ==
    /\ Returned
    /\ CallBackground = TallStave
    /\ CallStaveLines = << 0, 79, 158, 237, 316 >>
    /\ call.position = 9
    /\ NoteHeadY(result) = -39

====
